---- MODULE Spec2Model ----
(***************************************************************************)
(* A model of OcImage2Downloader (src/main.go): the Process button, the    *)
(* batch run by processRecords, its concurrent fetch tasks                 *)
(* (downloadAndSaveImage) and the link extractor / rewriter.               *)
(*                                                                         *)
(* Text is modelled character by character: a Go string is a sequence of   *)
(* one-character strings, so that the regular expressions and the string   *)
(* functions of the code are computed as the code computes them.           *)
(***************************************************************************)
EXTENDS Integers, Sequences, FiniteSets, TLC

(***************************************************************************)
(* Strings                                                                 *)
(***************************************************************************)

\* s[a..b] as Go's s[a-1:b]; empty when b < a.
Sub(s, a, b) ==
    IF b < a THEN <<>> ELSE SubSeq(s, a, b)

\* strings.HasPrefix
HasPrefix(s, p) ==
    /\ Len(p) <= Len(s)
    /\ Sub(s, 1, Len(p)) = p

\* Whether sub occurs in s starting at (1-based) position i.
OccursAt(s, sub, i) ==
    /\ i >= 1
    /\ i + Len(sub) - 1 <= Len(s)
    /\ Sub(s, i, i + Len(sub) - 1) = sub

\* strings.Index, 1-based, from position i on; 0 when sub does not occur.
RECURSIVE IndexFrom(_, _, _)
IndexFrom(s, sub, i) ==
    IF i + Len(sub) - 1 > Len(s) THEN 0
    ELSE IF OccursAt(s, sub, i) THEN i
    ELSE IndexFrom(s, sub, i + 1)

\* The first position >= i of a character of the set cs; Len(s)+1 when none.
RECURSIVE FirstIn(_, _, _)
FirstIn(s, cs, i) ==
    IF i > Len(s) THEN Len(s) + 1
    ELSE IF s[i] \in cs THEN i
    ELSE FirstIn(s, cs, i + 1)

\* strings.Replace(s, old, new, 1): the first occurrence of old, if any.
Replace1(s, old, new) ==
    LET i == IndexFrom(s, old, 1)
    IN  IF i = 0 THEN s
        ELSE Sub(s, 1, i - 1) \o new \o Sub(s, i + Len(old), Len(s))

\* strings.TrimRight(s, c) and strings.TrimLeft(s, c) for a one-character cutset.
RECURSIVE TrimRight(_, _)
TrimRight(s, c) ==
    IF Len(s) > 0 /\ s[Len(s)] = c THEN TrimRight(Sub(s, 1, Len(s) - 1), c) ELSE s

RECURSIVE TrimLeft(_, _)
TrimLeft(s, c) ==
    IF Len(s) > 0 /\ s[1] = c THEN TrimLeft(Tail(s), c) ELSE s

\* strings.Split(s, c) for a one-character separator: always at least one part.
RECURSIVE Split(_, _)
Split(s, c) ==
    LET i == FirstIn(s, {c}, 1)
    IN  IF i > Len(s) THEN <<s>>
        ELSE <<Sub(s, 1, i - 1)>> \o Split(Sub(s, i + 1, Len(s)), c)

\* strings.Join(parts, sep)
RECURSIVE Join(_, _)
Join(parts, sep) ==
    IF Len(parts) = 0 THEN <<>>
    ELSE IF Len(parts) = 1 THEN parts[1]
    ELSE parts[1] \o sep \o Join(Tail(parts), sep)

\* The elements of a sequence.
Range(seq) ==
    {seq[i] : i \in 1..Len(seq)}

(***************************************************************************)
(* Link Extractor / Rewriter (src/main.go:404-430)                         *)
(***************************************************************************)

Quotes == {"\"", "'"}

IMG == <<"<", "i", "m", "g">>

SRCEQ == <<"s", "r", "c", "=">>

\* An attempt of  src=["']([^"']+)["']  at position p: the capture is
\* s[p+5 .. q-1] where q is the first quote after the opening one; it must
\* be non-empty. The result is the position of the closing quote, 0 when the
\* attempt fails.  ([^"']+ followed by a quote admits one length only.)
SrcAt(s, p) ==
    IF /\ OccursAt(s, SRCEQ, p)
       /\ p + 4 <= Len(s)
       /\ s[p + 4] \in Quotes
    THEN LET q == FirstIn(s, Quotes, p + 5)
         IN  IF q <= Len(s) /\ q > p + 5 THEN q ELSE 0
    ELSE 0

\* The regular expression of extractImageLinks and replaceImageLinks,
\*     <img[^>]+src=["']([^"']+)["'][^>]*>
\* attempted at position i, with src= at position p: [^>]+ is s[i+4 .. p-1]
\* (non-empty, no '>'), then the src attempt, then [^>]*> up to the first
\* '>' after the closing quote. The result is the position of that '>', 0
\* when this attempt fails.
ImgEndVia(s, i, p) ==
    LET q == SrcAt(s, p)
    IN  IF q = 0 THEN 0
        ELSE LET e == FirstIn(s, {">"}, q + 1)
             IN  IF e <= Len(s) THEN e ELSE 0

\* Go's regexp prefers, for the greedy [^>]+, the longest run that lets the
\* rest match: the largest p. Candidates are i+5 .. g where g is the first
\* '>' at or after i+4.
RECURSIVE BestSrcPos(_, _, _)
BestSrcPos(s, i, p) ==
    IF p < i + 5 THEN 0
    ELSE IF ImgEndVia(s, i, p) # 0 THEN p
    ELSE BestSrcPos(s, i, p - 1)

\* The match of the img expression starting at i: [from, to, cap1, cap2]
\* (the tag s[from..to], the captured src value s[cap1..cap2]); to = 0 when
\* there is none.
ImgMatchAt(s, i) ==
    IF ~OccursAt(s, IMG, i) THEN [from |-> i, to |-> 0, cap1 |-> 0, cap2 |-> 0]
    ELSE LET g == FirstIn(s, {">"}, i + 4)
             p == BestSrcPos(s, i, g)
         IN  IF p = 0 THEN [from |-> i, to |-> 0, cap1 |-> 0, cap2 |-> 0]
             ELSE [from |-> i, to |-> ImgEndVia(s, i, p),
                   cap1 |-> p + 5, cap2 |-> SrcAt(s, p) - 1]

\* re.FindAll...: the leftmost match at or after i, then on from its end
\* (matches do not overlap).
RECURSIVE FindAllImg(_, _)
FindAllImg(s, i) ==
    IF i > Len(s) THEN <<>>
    ELSE LET m == ImgMatchAt(s, i)
         IN  IF m.to = 0 THEN FindAllImg(s, i + 1)
             ELSE <<m>> \o FindAllImg(s, m.to + 1)

\* extractImageLinks (src/main.go:405-413): match[1] of every match, in order.
extractImageLinks(htmlContent) ==
    LET ms == FindAllImg(htmlContent, 1)
    IN  [k \in 1..Len(ms) |-> Sub(htmlContent, ms[k].cap1, ms[k].cap2)]

\* srcRe.FindStringSubmatch(imgTag)[1]  for  src=["']([^"']+)["'] : the
\* leftmost successful attempt; <<>> when there is none.
RECURSIVE FirstSrcValue(_, _)
FirstSrcValue(imgTag, p) ==
    IF p > Len(imgTag) THEN <<>>
    ELSE IF SrcAt(imgTag, p) # 0 THEN Sub(imgTag, p + 5, SrcAt(imgTag, p) - 1)
    ELSE FirstSrcValue(imgTag, p + 1)

\* The function handed to ReplaceAllStringFunc (src/main.go:418-428).
ReplaceInTag(imgTag, imagePathMap) ==
    LET originalLink == FirstSrcValue(imgTag, 1)
    IN  IF originalLink # <<>> /\ originalLink \in DOMAIN imagePathMap
        THEN Replace1(imgTag, originalLink, imagePathMap[originalLink])
        ELSE imgTag

\* re.ReplaceAllStringFunc: every match replaced, the text between copied.
RECURSIVE ReplaceFrom(_, _, _)
ReplaceFrom(s, i, imagePathMap) ==
    IF i > Len(s) THEN <<>>
    ELSE LET m == ImgMatchAt(s, i)
         IN  IF m.to = 0 THEN <<s[i]>> \o ReplaceFrom(s, i + 1, imagePathMap)
             ELSE ReplaceInTag(Sub(s, m.from, m.to), imagePathMap)
                  \o ReplaceFrom(s, m.to + 1, imagePathMap)

\* replaceImageLinks (src/main.go:416-430)
replaceImageLinks(htmlContent, imagePathMap) ==
    ReplaceFrom(htmlContent, 1, imagePathMap)

(***************************************************************************)
(* Characters                                                              *)
(***************************************************************************)

\* The printable ASCII characters, code 32 (space) to 126, in order (the
\* grave accent, code 96, is written as its code point).
ASCII ==
    <<
       " ", "!", "\"", "#", "$", "%", "&", "'", "(", ")", "*", "+", ",", "-",
       ".", "/", "0", "1", "2", "3", "4", "5", "6", "7", "8", "9", ":", ";",
       "<", "=", ">", "?", "@", "A", "B", "C", "D", "E", "F", "G", "H", "I",
       "J", "K", "L", "M", "N", "O", "P", "Q", "R", "S", "T", "U", "V", "W",
       "X", "Y", "Z", "[", "\\", "]", "^", "_", "U+0060", "a", "b", "c", "d", "e",
       "f", "g", "h", "i", "j", "k", "l", "m", "n", "o", "p", "q", "r", "s",
       "t", "u", "v", "w", "x", "y", "z", "{", "|", "}", "~"
    >>

\* The ASCII code of each printable character.
CodeOf ==
    [c \in Range(ASCII) |-> 31 + (CHOOSE k \in 1..Len(ASCII) : ASCII[k] = c)]

\* The ASCII code of a character; 0 for a rune outside printable ASCII.
Code(c) ==
    IF c \in DOMAIN CodeOf THEN CodeOf[c] ELSE 0

IsUpper(c) == Code(c) >= 65 /\ Code(c) <= 90

IsLower(c) == Code(c) >= 97 /\ Code(c) <= 122

IsDigit(c) == Code(c) >= 48 /\ Code(c) <= 57

IsAsciiLetter(c) == IsUpper(c) \/ IsLower(c)

\* The value of a hexadecimal digit, -1 for any other character (ishex/unhex
\* of net/url).
Unhex(c) ==
    IF IsDigit(c) THEN Code(c) - 48
    ELSE IF Code(c) >= 97 /\ Code(c) <= 102 THEN Code(c) - 97 + 10
    ELSE IF Code(c) >= 65 /\ Code(c) <= 70 THEN Code(c) - 65 + 10
    ELSE -1

\* The character of a byte value; a byte outside printable ASCII is the one
\* rune "U+FFFD" here (the model's texts escape no such byte).
Chr(b) ==
    IF b >= 32 /\ b <= 126 THEN ASCII[b - 31] ELSE "U+FFFD"

\* strings.ToLower, one rune: ASCII upper case and the Cyrillic capitals
\* U+0410..U+042F of the model's alphabet keep their identity otherwise.
ToLowerChar(c) ==
    IF IsUpper(c) THEN Chr(Code(c) + 32) ELSE c

(***************************************************************************)
(* URL Resolver and Filename Synthesizer (src/main.go:433-486)             *)
(***************************************************************************)

HTTP == <<"h", "t", "t", "p">>

\* src/main.go:435-439
ResolveURL(imageURL, hostname) ==
    IF HasPrefix(imageURL, <<"/", "/">>) THEN <<"h", "t", "t", "p", "s", ":">> \o imageURL
    ELSE IF ~HasPrefix(imageURL, HTTP)
         THEN TrimRight(hostname, "/") \o <<"/">> \o TrimLeft(imageURL, "/")
    ELSE imageURL

\* getScheme of net/url: [kind, rest] where kind is "scheme" (rest follows
\* the colon), "none" (rest is the whole text) or "err" (a leading colon).
RECURSIVE GetScheme(_, _)
GetScheme(raw, i) ==
    IF i > Len(raw) THEN [kind |-> "none", rest |-> raw]
    ELSE IF IsAsciiLetter(raw[i]) THEN GetScheme(raw, i + 1)
    ELSE IF IsDigit(raw[i]) \/ raw[i] \in {"+", "-", "."}
         THEN IF i = 1 THEN [kind |-> "none", rest |-> raw]
              ELSE GetScheme(raw, i + 1)
    ELSE IF raw[i] = ":"
         THEN IF i = 1 THEN [kind |-> "err", rest |-> raw]
              ELSE [kind |-> "scheme", rest |-> Sub(raw, i + 1, Len(raw))]
    ELSE [kind |-> "none", rest |-> raw]

\* unescape of net/url in path mode: every % needs two hexadecimal digits
\* after it and stands for that byte. [ok, text].
RECURSIVE Unescape(_)
Unescape(s) ==
    IF Len(s) = 0 THEN [ok |-> TRUE, text |-> <<>>]
    ELSE IF s[1] = "%"
         THEN IF Len(s) >= 3 /\ Unhex(s[2]) >= 0 /\ Unhex(s[3]) >= 0
              THEN LET r == Unescape(Sub(s, 4, Len(s)))
                   IN  [ok |-> r.ok,
                        text |-> <<Chr(16 * Unhex(s[2]) + Unhex(s[3]))>> \o r.text]
              ELSE [ok |-> FALSE, text |-> <<>>]
    ELSE LET r == Unescape(Tail(s))
         IN  [ok |-> r.ok, text |-> <<s[1]>> \o r.text]

\* The text before the first occurrence of the character c (all of it when
\* there is none), and the text after it.
Before(s, c) == Sub(s, 1, FirstIn(s, {c}, 1) - 1)

After(s, c) == Sub(s, FirstIn(s, {c}, 1) + 1, Len(s))

\* url.Parse(imageURL) as far as downloadAndSaveImage uses it: whether it
\* succeeds and the Path it yields (src/main.go:442-445). The fragment and the
\* query are cut off, the scheme and the authority are removed, the rest is
\* unescaped. The host is not validated here.
ParseURL(rawURL) ==
    LET u    == Before(rawURL, "#")
        sch  == GetScheme(u, 1)
        rest == Before(sch.rest, "?")
        colonFirst == ":" \in Range(Before(rest, "/"))
        hasAuth == /\ HasPrefix(rest, <<"/", "/">>)
                   /\ (sch.kind = "scheme" \/ ~HasPrefix(rest, <<"/", "/", "/">>))
        afterAuth == LET a == Sub(rest, 3, Len(rest))
                         i == FirstIn(a, {"/"}, 1)
                     IN  Sub(a, i, Len(a))
        p == Unescape(IF hasAuth THEN afterAuth ELSE rest)
    IN  IF sch.kind = "err" THEN [ok |-> FALSE, path |-> <<>>]
        ELSE IF ~HasPrefix(rest, <<"/">>) /\ sch.kind = "scheme"
             THEN [ok |-> TRUE, path |-> <<>>]
        ELSE IF ~HasPrefix(rest, <<"/">>) /\ colonFirst
             THEN [ok |-> FALSE, path |-> <<>>]
        ELSE [ok |-> p.ok, path |-> IF p.ok THEN p.text ELSE <<>>]

\* The position of the last occurrence of c in s, 0 when there is none.
RECURSIVE LastIndex(_, _, _)
LastIndex(s, c, i) ==
    IF i < 1 THEN 0
    ELSE IF s[i] = c THEN i
    ELSE LastIndex(s, c, i - 1)

\* filepath.Base
Base(path) ==
    IF Len(path) = 0 THEN <<".">>
    ELSE LET t == TrimRight(path, "/")
         IN  IF Len(t) = 0 THEN <<"/">>
             ELSE Sub(t, LastIndex(t, "/", Len(t)) + 1, Len(t))

\* filepath.Ext: from the last dot of the last element on.
Ext(path) ==
    LET slash == LastIndex(path, "/", Len(path))
        dot   == LastIndex(path, ".", Len(path))
    IN  IF dot > slash THEN Sub(path, dot, Len(path)) ELSE <<>>

\* strings.TrimSuffix
TrimSuffix(s, suffix) ==
    IF Len(suffix) <= Len(s) /\ Sub(s, Len(s) - Len(suffix) + 1, Len(s)) = suffix
    THEN Sub(s, 1, Len(s) - Len(suffix))
    ELSE s

\* The transliteration table (src/main.go:29-44); a Cyrillic rune is written
\* as its code point.
cyrillicToLatin ==
    ("U+0410" :> <<"A">>) @@ ("U+0411" :> <<"B">>) @@
    ("U+0412" :> <<"V">>) @@ ("U+0413" :> <<"H">>) @@
    ("U+0490" :> <<"G">>) @@ ("U+0414" :> <<"D">>) @@
    ("U+0415" :> <<"E">>) @@ ("U+0404" :> <<"Y", "e">>) @@
    ("U+0416" :> <<"Z", "h">>) @@ ("U+0417" :> <<"Z">>) @@
    ("U+0418" :> <<"Y">>) @@ ("U+0406" :> <<"I">>) @@
    ("U+0407" :> <<"Y", "i">>) @@ ("U+0419" :> <<"Y">>) @@
    ("U+041A" :> <<"K">>) @@ ("U+041B" :> <<"L">>) @@
    ("U+041C" :> <<"M">>) @@ ("U+041D" :> <<"N">>) @@
    ("U+041E" :> <<"O">>) @@ ("U+041F" :> <<"P">>) @@
    ("U+0420" :> <<"R">>) @@ ("U+0421" :> <<"S">>) @@
    ("U+0422" :> <<"T">>) @@ ("U+0423" :> <<"U">>) @@
    ("U+0424" :> <<"F">>) @@ ("U+0425" :> <<"K", "h">>) @@
    ("U+0426" :> <<"T", "s">>) @@ ("U+0427" :> <<"C", "h">>) @@
    ("U+0428" :> <<"S", "h">>) @@ ("U+0429" :> <<"S", "h", "c", "h">>) @@
    ("U+042E" :> <<"Y", "u">>) @@ ("U+042F" :> <<"Y", "a">>) @@
    ("U+042C" :> <<>>) @@ ("U+0430" :> <<"a">>) @@ ("U+0431" :> <<"b">>) @@
    ("U+0432" :> <<"v">>) @@ ("U+0433" :> <<"h">>) @@
    ("U+0491" :> <<"g">>) @@ ("U+0434" :> <<"d">>) @@
    ("U+0435" :> <<"e">>) @@ ("U+0454" :> <<"y", "e">>) @@
    ("U+0436" :> <<"z", "h">>) @@ ("U+0437" :> <<"z">>) @@
    ("U+0438" :> <<"y">>) @@ ("U+0456" :> <<"i">>) @@
    ("U+0457" :> <<"y", "i">>) @@ ("U+0439" :> <<"y">>) @@
    ("U+043A" :> <<"k">>) @@ ("U+043B" :> <<"l">>) @@
    ("U+043C" :> <<"m">>) @@ ("U+043D" :> <<"n">>) @@
    ("U+043E" :> <<"o">>) @@ ("U+043F" :> <<"p">>) @@
    ("U+0440" :> <<"r">>) @@ ("U+0441" :> <<"s">>) @@
    ("U+0442" :> <<"t">>) @@ ("U+0443" :> <<"u">>) @@
    ("U+0444" :> <<"f">>) @@ ("U+0445" :> <<"k", "h">>) @@
    ("U+0446" :> <<"t", "s">>) @@ ("U+0447" :> <<"c", "h">>) @@
    ("U+0448" :> <<"s", "h">>) @@ ("U+0449" :> <<"s", "h", "c", "h">>) @@
    ("U+044E" :> <<"y", "u">>) @@ ("U+044F" :> <<"y", "a">>) @@
    ("U+044C" :> <<>>) @@ ("U+0401" :> <<"E">>) @@ ("U+042B" :> <<"Y">>) @@
    ("U+042D" :> <<"E">>) @@ ("U+0451" :> <<"e">>) @@
    ("U+044B" :> <<"y">>) @@ ("U+044D" :> <<"e">>)

\* Concatenation of a sequence of texts.
RECURSIVE Concat(_)
Concat(parts) ==
    IF Len(parts) = 0 THEN <<>> ELSE parts[1] \o Concat(Tail(parts))

\* [^\w-] of step 2 removes every rune that is not an ASCII letter, a digit,
\* an underscore or a dash.
IsWordOrDash(c) == IsAsciiLetter(c) \/ IsDigit(c) \/ c \in {"_", "-"}

\* Step 3 keeps a dash, a letter or a digit.
IsLetterDigitDash(c) == IsAsciiLetter(c) \/ IsDigit(c) \/ c = "-"

\* transliterate (src/main.go:586-613)
transliterate(filename) ==
    LET step1 == Concat([k \in 1..Len(filename) |->
                     IF filename[k] \in DOMAIN cyrillicToLatin
                     THEN cyrillicToLatin[filename[k]]
                     ELSE <<filename[k]>>])
        dashed == [k \in 1..Len(step1) |-> IF step1[k] = " " THEN "-" ELSE step1[k]]
        step2 == SelectSeq(dashed, IsWordOrDash)
        step3 == SelectSeq(step2, IsLetterDigitDash)
    IN  [k \in 1..Len(step3) |-> ToLowerChar(step3[k])]

\* hex.EncodeToString(sha1(imageURL))[:4] (src/main.go:469-471), tabulated
\* for the URLs the model's references resolve to.
Sha1Hex4Table ==
    (<<"h", "t", "t", "p", "s", ":", "/", "/", "s", "/", "a">>
        :> <<"a", "c", "f", "d">>) @@
    (<<"h", "t", "t", "p", "s", ":", "/", "/", "h", "/", "b">>
        :> <<"5", "f", "7", "6">>) @@
    (<<"h", "t", "t", "p", "s", ":", "/", "/", "s", "/", "%">>
        :> <<"f", "6", "1", "3">>) @@
    (<<"h", "t", "t", "p", "s", ":", "/", "/", "s", "/", "c", ".", "P", "N", "G">>
        :> <<"e", "1", "a", "6">>) @@
    (<<"h", "t", "t", "p", "x">>
        :> <<"f", "7", "9", "1">>) @@
    (<<"h", "t", "t", "p", "s", ":", "/", "/", "h">>
        :> <<"0", "0", "6", "6">>) @@
    (<<"h", "t", "t", "p", "s", ":", "/", "/", "s", "/", "U+0429", ".", "j", "p", "g">>
        :> <<"8", "3", "2", "f">>) @@
    (<<"h", "t", "t", "p", "s", ":", "/", "/", "s", "/", "a", ".", "j", "p", "g", "?", "v", "=", "1">>
        :> <<"3", "3", "0", "a">>) @@
    (<<"s", "/", "a">>
        :> <<"d", "8", "d", "a">>) @@
    (<<"s", "/", "%">>
        :> <<"d", "a", "8", "b">>) @@
    (<<"s", "/", "c", ".", "P", "N", "G">>
        :> <<"6", "7", "9", "f">>) @@
    (<<"s", "/", "U+0429", ".", "j", "p", "g">>
        :> <<"9", "e", "a", "5">>) @@
    (<<"s", "/", "a", ".", "j", "p", "g", "?", "v", "=", "1">>
        :> <<"5", "8", "b", "8">>)

Sha1Hex4(imageURL) ==
    Sha1Hex4Table[imageURL]

\* src/main.go:448-456
UniquePart(pathParts) ==
    LET n == Len(pathParts)
    IN  IF n >= 3 THEN Join(Sub(pathParts, n - 2, n - 1), <<"_">>)
        ELSE IF n >= 2 THEN pathParts[n - 1]
        ELSE <<>>

JPG == <<".", "j", "p", "g">>

\* The extension of the local filename (src/main.go:458-465).
Extension(path) ==
    LET filenameWithExt == Before(Base(path), "?")
    IN  IF Ext(filenameWithExt) = <<>> THEN JPG ELSE Ext(filenameWithExt)

\* The local filename of a resolved URL whose parsed path is path
\* (src/main.go:448-476).
SynthFilename(imageURL, path) ==
    LET filenameWithExt == Before(Base(path), "?")
        filename == TrimSuffix(filenameWithExt, Ext(filenameWithExt))
    IN  transliterate(Sha1Hex4(imageURL) \o <<"-">> \o UniquePart(Split(path, "/"))
                      \o <<"-">> \o filename)
        \o Extension(path)

\* filepath.Clean of the segments of a relative path: empty and "." segments
\* are dropped, ".." removes the segment before it.
RECURSIVE CleanSegs(_, _)
CleanSegs(segs, acc) ==
    IF Len(segs) = 0 THEN acc
    ELSE IF segs[1] = <<>> \/ segs[1] = <<".">> THEN CleanSegs(Tail(segs), acc)
    ELSE IF segs[1] = <<".", ".">> /\ Len(acc) > 0 /\ acc[Len(acc)] # <<".", ".">>
         THEN CleanSegs(Tail(segs), Sub(acc, 1, Len(acc) - 1))
    ELSE CleanSegs(Tail(segs), Append(acc, segs[1]))

\* filepath.Join("files", ...) (src/main.go:175, 479, 485): the elements
\* joined by a slash and cleaned; the first element is "files", so the
\* result is a relative path.
FilepathJoin(elems) ==
    LET segs == CleanSegs(Split(Join(elems, <<"/">>), "/"), <<>>)
    IN  IF Len(segs) = 0 THEN <<".">> ELSE Join(segs, <<"/">>)

FILES == <<"f", "i", "l", "e", "s">>

\* The directory the images are stored in (src/main.go:175, 479).
ImageDirPath(imagedir) ==
    FilepathJoin(<<FILES, imagedir>>)

\* A variant of Prepare that returns the path on disk for the HTML as well.
PrepareDiskPath(link, hostname, imagedir) ==
    LET imageURL == ResolveURL(link, hostname)
        parsed == ParseURL(imageURL)
    IN  IF ~parsed.ok
        THEN [ok |-> FALSE, url |-> imageURL, filePath |-> <<>>, relativePath |-> <<>>]
        ELSE LET filename == SynthFilename(imageURL, parsed.path)
             IN  [ok |-> TRUE, url |-> imageURL,
                  filePath |-> FilepathJoin(<<ImageDirPath(imagedir), filename>>),
                  relativePath |-> FilepathJoin(<<ImageDirPath(imagedir), filename>>)]

\* What downloadAndSaveImage computes before it touches the disk or the
\* network (src/main.go:435-486): the resolved URL, whether it parses, the
\* path of the file on disk and the relative path for the HTML.
\* filepath.ToSlash changes nothing where the separator is a slash.
Prepare(link, hostname, imagedir) ==
    LET imageURL == ResolveURL(link, hostname)
        parsed == ParseURL(imageURL)
    IN  IF ~parsed.ok
        THEN [ok |-> FALSE, url |-> imageURL, filePath |-> <<>>, relativePath |-> <<>>]
        ELSE LET filename == SynthFilename(imageURL, parsed.path)
             IN  [ok |-> TRUE, url |-> imageURL,
                  filePath |-> FilepathJoin(<<ImageDirPath(imagedir), filename>>),
                  relativePath |-> imagedir \o filename]

(***************************************************************************)
(* Inputs                                                                  *)
(***************************************************************************)

\* The most data rows of a spreadsheet.
MaxRows == 2

\* <img src='/a'>
TagA == <<"<", "i", "m", "g", " ", "s", "r", "c", "=", "'", "/", "a", "'", ">">>

\* <img src="a">: another literal for the URL of TagA
TagA2 == <<"<", "i", "m", "g", " ", "s", "r", "c", "=", "\"", "a", "\"", ">">>

\* <img title='/a' src='/a'>: the src value occurs earlier in the tag
TagTitle == <<"<", "i", "m", "g", " ", "t", "i", "t", "l", "e", "=", "'", "/", "a", "'", " ", "s", "r", "c", "=", "'", "/", "a", "'", ">">>

\* <img data-src='a' src='//h/b'>: two src= in one tag
TagData == <<"<", "i", "m", "g", " ", "d", "a", "t", "a", "-", "s", "r", "c", "=", "'", "a", "'", " ", "s", "r", "c", "=", "'", "/", "/", "h", "/", "b", "'", ">">>

\* <img src='/%'>: a reference whose URL does not parse
TagBad == <<"<", "i", "m", "g", " ", "s", "r", "c", "=", "'", "/", "%", "'", ">">>

\* The (body_uk, body_ru) pairs a data row is drawn from.
RowSamples ==
    { <<<<"x">> \o TagA, TagTitle>>,
      <<TagA2 \o <<"y">>, <<>>>>,
      <<TagData, <<>>>>,
      <<TagBad, TagA>>,
      <<<<"x">>, <<>>>> }

\* The header rows: complete, body_ru missing, body_uk missing.
Headers ==
    { <<"id", "body_uk", "body_ru">>,
      <<"id", "body_uk">>,
      <<"body_ru", "id">> }

\* The record of a data row under a header: one field per column.
RowFor(header, sample) ==
    [k \in 1..Len(header) |->
        IF header[k] = "body_uk" THEN sample[1]
        ELSE IF header[k] = "body_ru" THEN sample[2]
        ELSE <<"1">>]

\* The sequences over S of length n.
RECURSIVE SeqsOfLen(_, _)
SeqsOfLen(S, n) ==
    IF n = 0 THEN {<<>>}
    ELSE {Append(q, x) : q \in SeqsOfLen(S, n - 1), x \in S}

\* The spreadsheets: no record at all, or a header and up to MaxRows data
\* rows; fetchCSV allows records of any field count (src/main.go:285), so a
\* data row may also be cut short to its first field.
Spreadsheets ==
    {<<>>} \cup
    UNION { { <<h>> \o [k \in 1..n |-> RowFor(h, q[k])] : q \in SeqsOfLen(RowSamples, n) }
            : h \in Headers, n \in 0..MaxRows }
    \cup { <<h, Sub(RowFor(h, s), 1, 1)>> : h \in Headers, s \in RowSamples }

\* The Spreadsheet URL field: empty, a URL with a /d/<id> path, one without.
SpreadsheetURLs ==
    { <<>>, <<"/", "d", "/", "k">>, <<"/", "k">> }

\* The Hostname field.
Hostnames ==
    { <<"h", "t", "t", "p", "s", ":", "/", "/", "s", "/">> }

\* The Image Directory field.
Imagedirs ==
    { <<"/", "u", "/">> }

\* The disk before the button is pressed, as <<the image directory exists,
\* the output file>>: fresh, or as an earlier run has left it.
Disks ==
    { <<FALSE, "none">>, <<TRUE, "old">> }

\* The body of every remote image, in the chunks io.Copy writes it in.
Body == <<"d">>

(***************************************************************************)
(* State                                                                   *)
(***************************************************************************)

VARIABLES
    spreadsheetURL,  \* urlEntry.Text
    hostname,        \* hostnameEntry.Text
    imagedir,        \* imagedirEntry.Text
    sheet,           \* the spreadsheet the CSV export serves
    dirOnDisk,       \* whether files/<imagedir> exists
    outOnDisk,       \* the output file: "none", "old" (from before) or "new"
    files,           \* the files of the image directory: path -> bytes written
    fsEffects,       \* every change of the file system since the button press
    pc,              \* where the button handler / the batch goroutine is
    status,          \* statusBinding: the text and, for a download, X and Y
    shown,           \* the dialog last shown: <<"none">>, <<"error", m>> or <<"info", m>>
    progress,        \* progressBinding: [num, den], the value num/den
    records,         \* processRecords' records
    rowIdx,          \* the row the collection or rewrite loop is at
    imageLinkSet,    \* the keys of imageLinkSet
    allImageLinks,   \* the slice allImageLinks, from the launch loop's position on
    totalSteps,      \* totalSteps (= totalImages)
    stepsCompleted,  \* stepsCompleted
    mu,              \* who holds the mutex: <<>> (free), MainHolder or a reference
    wg,              \* the WaitGroup counter
    imagePathMap,    \* imagePathMap
    task,            \* the fetch goroutines: reference -> [pc, filePath, relativePath, off]
    gets,            \* the HTTP GETs issued for images: reference -> count
    launched,        \* the go statements executed: reference -> count
    later            \* where the handler or goroutine of a second button press is

vars ==
    << spreadsheetURL, hostname, imagedir, sheet, dirOnDisk, outOnDisk, files,
       fsEffects, pc, status, shown, progress, records, rowIdx, imageLinkSet,
       allImageLinks, totalSteps, stepsCompleted, mu, wg,
       imagePathMap, task, gets, launched, later >>

\* The variables no step of the first press changes: the configuration, the
\* remote spreadsheet and the position of a second press.
inputVars == <<spreadsheetURL, hostname, imagedir, sheet, later>>

\* The variables of processRecords and its goroutines.
batchVars ==
    << records, rowIdx, imageLinkSet, allImageLinks, totalSteps,
       stepsCompleted, mu, wg, imagePathMap, task, gets, launched >>

fsVars == <<dirOnDisk, outOnDisk, files, fsEffects>>

\* The empty map.
EmptyMap == <<>>

\* The state after main has built the window (src/main.go:46-88, 198-217):
\* the fields hold what the user typed, nothing runs.
Init ==
    /\ spreadsheetURL \in SpreadsheetURLs
    /\ hostname \in Hostnames
    /\ imagedir \in Imagedirs
    /\ sheet \in Spreadsheets
    /\ \E d \in Disks :
          /\ dirOnDisk = d[1]
          /\ outOnDisk = d[2]
    /\ files = EmptyMap
    /\ fsEffects = {}
    /\ pc = "idle"
    /\ status = <<"Status: Idle">>
    /\ shown = <<"none">>
    /\ progress = [num |-> 0, den |-> 1]
    /\ records = <<>>
    /\ rowIdx = 0
    /\ imageLinkSet = {}
    /\ allImageLinks = <<>>
    /\ totalSteps = 0
    /\ stepsCompleted = 0
    /\ mu = <<>>
    /\ wg = 0
    /\ imagePathMap = EmptyMap
    /\ task = EmptyMap
    /\ gets = EmptyMap
    /\ launched = EmptyMap
    /\ later = "none"

(***************************************************************************)
(* The Process button (src/main.go:91-196)                                 *)
(***************************************************************************)

\* showError and, with it, the end of the handler or goroutine: the status
\* the caller sets, the dialog, nothing running.
Fail(newStatus, message) ==
    /\ status' = newStatus
    /\ shown' = <<"error", message>>
    /\ pc' = "idle"

\* checkOutputFileAndProcess (src/main.go:151-172): the confirmation dialog
\* when the output file exists, startProcessing otherwise.
CheckOutputFileAndProcess ==
    pc' = IF outOnDisk # "none" THEN "confirmOut" ELSE "start"

\* The button's callback (src/main.go:91-117, 174-195). One invocation is
\* modelled: the button is pressed once.
Press ==
    /\ pc = "idle"
    /\ shown = <<"none">>
    /\ \/ /\ \E f \in {spreadsheetURL, hostname, imagedir} : f = <<>>
          /\ Fail(status, "Please fill in the following fields")
       \/ /\ \A f \in {spreadsheetURL, hostname, imagedir} : f # <<>>
          /\ dirOnDisk
          /\ pc' = "confirmDir"
          /\ UNCHANGED <<status, shown>>
       \/ /\ \A f \in {spreadsheetURL, hostname, imagedir} : f # <<>>
          /\ ~dirOnDisk
          /\ CheckOutputFileAndProcess
          /\ UNCHANGED <<status, shown>>
    /\ UNCHANGED <<inputVars, fsVars, progress, batchVars>>

\* The answer to "Directory Exists" (src/main.go:177-192).
ConfirmDir ==
    /\ pc = "confirmDir"
    /\ \/ /\ dirOnDisk' = FALSE
          /\ files' = EmptyMap
          /\ fsEffects' = fsEffects \cup {"RemoveAll image directory"}
          /\ CheckOutputFileAndProcess
          /\ UNCHANGED <<status, shown>>
       \/ /\ Fail(status, "Failed to delete directory")
          /\ UNCHANGED <<dirOnDisk, files, fsEffects>>
       \/ /\ Fail(<<"Status: Operation Aborted">>, "Directory exists, aborting...")
          /\ UNCHANGED <<dirOnDisk, files, fsEffects>>
    /\ UNCHANGED <<inputVars, outOnDisk, progress, batchVars>>

\* The answer to "File Exists" (src/main.go:153-168).
ConfirmOut ==
    /\ pc = "confirmOut"
    /\ \/ /\ outOnDisk' = "none"
          /\ fsEffects' = fsEffects \cup {"Remove output file"}
          /\ pc' = "start"
          /\ UNCHANGED <<status, shown>>
       \/ /\ Fail(status, "Failed to delete file")
          /\ UNCHANGED <<outOnDisk, fsEffects>>
       \/ /\ Fail(<<"Status: Operation Aborted">>, "File exists, aborting...")
          /\ UNCHANGED <<outOnDisk, fsEffects>>
    /\ UNCHANGED <<inputVars, dirOnDisk, files, progress, batchVars>>

\* getCSVURL (src/main.go:236-270): whether the URL's path holds a segment
\* "d" followed by a non-empty spreadsheet id. (The gid only changes the
\* text of the export URL.)
GetCSVURLOk(url) ==
    LET u == ParseURL(url)
        parts == Split(u.path, "/")
        ds == {i \in 1..Len(parts) : parts[i] = <<"d">> /\ i + 1 <= Len(parts)}
    IN  /\ u.ok
        /\ ds # {}
        /\ parts[(CHOOSE i \in ds : \A j \in ds : i <= j) + 1] # <<>>

\* startProcessing's goroutine up to getCSVURL (src/main.go:121-128).
Start ==
    /\ pc = "start"
    /\ IF GetCSVURLOk(spreadsheetURL)
       THEN /\ status' = <<"Status: Fetching CSV data...">>
            /\ pc' = "fetchCSV"
            /\ UNCHANGED shown
       ELSE Fail(<<"Status: Status: Idle">>, "Invalid Google Spreadsheet URL")
    /\ UNCHANGED <<inputVars, fsVars, progress, batchVars>>

\* fetchCSV and the call of processRecords (src/main.go:130-137, 273-292):
\* the GET of the export fails, or yields the spreadsheet's records.
FetchCSV ==
    /\ pc = "fetchCSV"
    /\ \/ /\ Fail(<<"Status: Status: Idle">>, "Failed to fetch CSV data")
          /\ UNCHANGED records
       \/ /\ records' = sheet
          /\ status' = <<"Status: Processing records...">>
          /\ pc' = "validate"
          /\ UNCHANGED shown
    /\ UNCHANGED <<inputVars, fsVars, progress, rowIdx, imageLinkSet, allImageLinks,
                   totalSteps, stepsCompleted, mu, wg, imagePathMap,
                   task, gets, launched>>

(***************************************************************************)
(* processRecords (src/main.go:295-402)                                    *)
(***************************************************************************)

\* headerMap[col] (src/main.go:300-304): the last column of that name; a Go
\* map yields 0, the first column, for a missing key. Columns count from 1
\* here.
HeaderIndex(headers, col) ==
    LET ks == {k \in 1..Len(headers) : headers[k] = col}
    IN  IF ks = {} THEN 1 ELSE CHOOSE k \in ks : \A j \in ks : j <= k

\* A variant of MissingColumns that looks for body_uk only.
MissingColumnsUkOnly(headers) ==
    {col \in {"body_uk"} : col \notin Range(headers)}

\* A variant of MissingColumns that requires no column.
MissingColumnsNone(headers) ==
    {}

\* The required columns the header lacks (src/main.go:306-311).
MissingColumns(headers) ==
    {col \in {"body_uk", "body_ru"} : col \notin Range(headers)}

\* The fatal checks at the head of processRecords (src/main.go:296-311).
Validate ==
    /\ pc = "validate"
    /\ IF Len(records) < 2
       THEN /\ Fail(<<"Status: Status: Idle">>, "No data in CSV")
            /\ UNCHANGED <<progress, rowIdx>>
       ELSE IF MissingColumns(records[1]) # {}
       THEN /\ Fail(<<"Status: Status: Idle">>, "Missing required column")
            /\ UNCHANGED <<progress, rowIdx>>
       ELSE /\ progress' = [num |-> 0, den |-> 1]
            /\ rowIdx' = 2
            /\ pc' = "collect"
            /\ UNCHANGED <<status, shown>>
    /\ UNCHANGED <<inputVars, fsVars, records, imageLinkSet, allImageLinks,
                   totalSteps, stepsCompleted, mu, wg, imagePathMap,
                   task, gets, launched>>

\* Whether row[headerMap["body_uk"]] and row[headerMap["body_ru"]] are
\* within the row.
RowInRange(headers, row) ==
    /\ HeaderIndex(headers, "body_uk") <= Len(row)
    /\ HeaderIndex(headers, "body_ru") <= Len(row)

\* A variant of RowLinks that leaves body_ru out.
RowLinksUkOnly(headers, row) ==
    Range(extractImageLinks(row[HeaderIndex(headers, "body_uk")]))

\* The links of one row (src/main.go:320-324).
RowLinks(headers, row) ==
    Range(extractImageLinks(row[HeaderIndex(headers, "body_uk")]))
    \cup Range(extractImageLinks(row[HeaderIndex(headers, "body_ru")]))

\* One iteration of the collection loop (src/main.go:319-332); an index
\* beyond the row is a run-time panic, which ends the process.
CollectRow ==
    /\ pc = "collect"
    /\ rowIdx <= Len(records)
    /\ IF RowInRange(records[1], records[rowIdx])
       THEN /\ imageLinkSet' = imageLinkSet \cup RowLinks(records[1], records[rowIdx])
            /\ rowIdx' = rowIdx + 1
            /\ UNCHANGED pc
       ELSE /\ pc' = "panic"
            /\ UNCHANGED <<imageLinkSet, rowIdx>>
    /\ UNCHANGED <<inputVars, fsVars, status, shown, progress, records,
                   allImageLinks, totalSteps, stepsCompleted, mu, wg,
                   imagePathMap, task, gets, launched>>

\* The orders a Go map may be ranged over: the sequences that hold every
\* element of S once.
Perms(S) ==
    {q \in SeqsOfLen(S, Cardinality(S)) : Range(q) = S}

\* The set turned into a slice, and the counters (src/main.go:334-346).
BuildSlice ==
    /\ pc = "collect"
    /\ rowIdx > Len(records)
    /\ allImageLinks' \in Perms(imageLinkSet)
    /\ totalSteps' = Cardinality(imageLinkSet)
    /\ stepsCompleted' = 0
    /\ status' = <<"Status: Downloading images...">>
    /\ imagePathMap' = EmptyMap
    /\ pc' = "download"
    /\ UNCHANGED <<inputVars, fsVars, shown, progress, records, rowIdx,
                   imageLinkSet, mu, wg, task, gets, launched>>

\* One iteration of the launch loop (src/main.go:349-372): wg.Add(1) and
\* the go statement. The loop never reads an element again, and the model
\* keeps the rest of the slice only; its length is in totalSteps.
Launch ==
    /\ pc = "download"
    /\ allImageLinks # <<>>
    /\ LET link == Head(allImageLinks)
       IN  /\ wg' = wg + 1
           /\ task' = task @@ (link :> [pc |-> "start", filePath |-> <<>>,
                                      relativePath |-> <<>>, off |-> 0])
           /\ gets' = gets @@ (link :> 0)
           /\ launched' = IF link \in DOMAIN launched
                           THEN [launched EXCEPT ![link] = @ + 1]
                           ELSE launched @@ (link :> 1)
    /\ allImageLinks' = Tail(allImageLinks)
    /\ UNCHANGED <<inputVars, fsVars, pc, status, shown, progress, records, rowIdx,
                   imageLinkSet, totalSteps, stepsCompleted, mu, imagePathMap>>

\* A variant of WaitReturns that never returns.
WaitReturnsNever ==
    FALSE

\* A variant of WaitReturns that does not wait.
WaitReturnsAtOnce ==
    TRUE

\* wg.Wait() returns when the counter is zero (src/main.go:373).
WaitReturns ==
    wg = 0

\* A variant of Wait that goes on to the output without the rewrite loop.
WaitSkipsRewrite ==
    /\ pc = "download"
    /\ allImageLinks = <<>>
    /\ WaitReturns
    /\ pc' = "write"
    /\ rowIdx' = 2
    /\ UNCHANGED <<inputVars, fsVars, status, shown, progress, records,
                   imageLinkSet, allImageLinks, totalSteps,
                   stepsCompleted, mu, wg, imagePathMap, task, gets, launched>>

\* The join: the loop has launched every task and wg.Wait() returns.
Wait ==
    /\ pc = "download"
    /\ allImageLinks = <<>>
    /\ WaitReturns
    /\ pc' = "rewrite"
    /\ rowIdx' = 2
    /\ UNCHANGED <<inputVars, fsVars, status, shown, progress, records,
                   imageLinkSet, allImageLinks, totalSteps,
                   stepsCompleted, mu, wg, imagePathMap, task, gets, launched>>

\* float64(stepsCompleted) / float64(totalSteps) as the pair it is the
\* quotient of (src/main.go:361, 389).
Fraction(n, d) ==
    [num |-> n, den |-> d]

\* A variant of RewrittenRow that stores the new body_uk in the first column.
RewrittenRowShifted(headers, row, pathMap) ==
    LET uk == HeaderIndex(headers, "body_uk")
        ru == HeaderIndex(headers, "body_ru")
        newBodyUk == replaceImageLinks(row[uk], pathMap)
        newBodyRu == replaceImageLinks(row[ru], pathMap)
    IN  [[row EXCEPT ![1] = newBodyUk] EXCEPT ![ru] = newBodyRu]

\* The row with its two body columns rewritten (src/main.go:377-384); the
\* body_ru assignment comes second.
RewrittenRow(headers, row, pathMap) ==
    LET uk == HeaderIndex(headers, "body_uk")
        ru == HeaderIndex(headers, "body_ru")
        newBodyUk == replaceImageLinks(row[uk], pathMap)
        newBodyRu == replaceImageLinks(row[ru], pathMap)
    IN  [[row EXCEPT ![uk] = newBodyUk] EXCEPT ![ru] = newBodyRu]

\* A variant of RewriteRow that reports the progress of the rewrite loop on
\* a scale of its own, rows done of rows.
RewriteRowOwnScale ==
    /\ pc = "rewrite"
    /\ rowIdx <= Len(records)
    /\ mu = <<>>
    /\ records' = [records EXCEPT
             ![rowIdx] = RewrittenRow(records[1], records[rowIdx], imagePathMap)]
    /\ stepsCompleted' = stepsCompleted + 1
    /\ progress' = Fraction(rowIdx - 1, Len(records) - 1)
    /\ rowIdx' = rowIdx + 1
    /\ UNCHANGED <<inputVars, fsVars, pc, status, shown, imageLinkSet, allImageLinks,
                   totalSteps, mu, wg, imagePathMap, task, gets, launched>>

\* One iteration of the rewrite loop (src/main.go:376-392). No goroutine is
\* left to contend for the mutex, which is taken and released within the
\* step.
RewriteRow ==
    /\ pc = "rewrite"
    /\ rowIdx <= Len(records)
    /\ mu = <<>>
    /\ IF RowInRange(records[1], records[rowIdx])
       THEN /\ records' = [records EXCEPT
                    ![rowIdx] = RewrittenRow(records[1], records[rowIdx], imagePathMap)]
            /\ stepsCompleted' = stepsCompleted + 1
            /\ progress' = Fraction(stepsCompleted + 1, totalSteps)
            /\ rowIdx' = rowIdx + 1
            /\ UNCHANGED pc
       ELSE /\ pc' = "panic"
            /\ UNCHANGED <<records, stepsCompleted, progress, rowIdx>>
    /\ UNCHANGED <<inputVars, fsVars, status, shown, imageLinkSet, allImageLinks,
                   totalSteps, mu, wg, imagePathMap, task, gets, launched>>

\* The end of the rewrite loop (src/main.go:394-395).
StartWrite ==
    /\ pc = "rewrite"
    /\ rowIdx > Len(records)
    /\ status' = <<"Status: Writing to output file...">>
    /\ pc' = "write"
    /\ UNCHANGED <<inputVars, fsVars, shown, progress, batchVars>>

\* writeCSV and the return to the goroutine of main (src/main.go:396-401,
\* 139-146, 541-568): os.Create fails, or the records are written.
WriteOutput ==
    /\ pc = "write"
    /\ \/ /\ Fail(<<"Status: Status: Idle">>, "writeCSV")
          /\ UNCHANGED <<outOnDisk, fsEffects>>
       \/ /\ outOnDisk' = "new"
          /\ fsEffects' = fsEffects \cup {"Create output file"}
          /\ status' = <<"Status: Status: Completed">>
          /\ shown' = <<"info", "Images downloaded and data processed successfully.">>
          /\ pc' = "idle"
    /\ UNCHANGED <<inputVars, dirOnDisk, files, progress, batchVars>>

(***************************************************************************)
(* The fetch goroutines (src/main.go:351-371, 433-538)                     *)
(***************************************************************************)

\* The task of link moves to position p.
TaskAt(link, p) ==
    task' = [task EXCEPT ![link].pc = p]

\* The goroutine returns: the deferred wg.Done() (src/main.go:352).
TaskReturns(link) ==
    /\ TaskAt(link, "done")
    /\ wg' = wg - 1

\* What the goroutine does after downloadAndSaveImage has returned an error
\* (src/main.go:354-357): it logs and returns.
TaskFails(link) ==
    TaskReturns(link)

\* A variant of FileExistsOnDisk that finds no file.
FileNeverFound(filePath) ==
    FALSE

\* os.Stat(filePath) returns no error (src/main.go:489): a file is there.
FileExistsOnDisk(filePath) ==
    filePath \in DOMAIN files

\* downloadAndSaveImage up to the existence check (src/main.go:435-492): the
\* URL does not parse, MkdirAll fails, or the directory is there and the
\* file is looked up.
TaskPrepare(link) ==
    /\ task[link].pc = "start"
    /\ LET p == Prepare(link, hostname, imagedir)
       IN  \/ /\ ~p.ok
              /\ TaskFails(link)
              /\ UNCHANGED <<dirOnDisk, fsEffects>>
           \/ /\ p.ok
              /\ ~dirOnDisk
              /\ TaskFails(link)
              /\ UNCHANGED <<dirOnDisk, fsEffects>>
           \/ /\ p.ok
              /\ dirOnDisk' = TRUE
              /\ fsEffects' = IF dirOnDisk THEN fsEffects
                              ELSE fsEffects \cup {"MkdirAll image directory"}
              /\ task' = [task EXCEPT
                     ![link].filePath = p.filePath,
                     ![link].relativePath = p.relativePath,
                     ![link].pc = IF FileExistsOnDisk(p.filePath) THEN "lock" ELSE "get"]
              /\ UNCHANGED wg
    /\ UNCHANGED <<inputVars, outOnDisk, files, pc, status, shown, progress,
                   records, rowIdx, imageLinkSet, allImageLinks, totalSteps, stepsCompleted, mu, imagePathMap, gets, launched>>

\* A variant of OnRequestError that issues the request again.
RetryRequest(link) ==
    /\ TaskAt(link, "get")
    /\ UNCHANGED wg

\* What the goroutine does when client.Do returns an error
\* (src/main.go:504-507): downloadAndSaveImage returns it.
OnRequestError(link) ==
    TaskFails(link)

\* client.Do (src/main.go:494-513): a transport error, a status other than
\* 200, or a 200 response.
TaskGet(link) ==
    /\ task[link].pc = "get"
    /\ gets' = [gets EXCEPT ![link] = @ + 1]
    /\ \/ OnRequestError(link)
       \/ TaskFails(link)
       \/ /\ TaskAt(link, "create")
          /\ UNCHANGED wg
    /\ UNCHANGED <<inputVars, fsVars, pc, status, shown, progress, records, rowIdx,
                   imageLinkSet, allImageLinks, totalSteps, stepsCompleted, mu,
                   imagePathMap, launched>>

\* os.Create (src/main.go:516-520): it fails, or the file is there and empty.
TaskCreate(link) ==
    /\ task[link].pc = "create"
    /\ LET p == task[link]
       IN  \/ /\ TaskFails(link)
              /\ UNCHANGED <<files, fsEffects>>
           \/ /\ files' = IF p.filePath \in DOMAIN files
                          THEN [files EXCEPT ![p.filePath] = <<>>]
                          ELSE files @@ (p.filePath :> <<>>)
              /\ fsEffects' = fsEffects \cup {"Create image file"}
              /\ task' = [task EXCEPT ![link].pc = "copy", ![link].off = 0]
              /\ UNCHANGED wg
    /\ UNCHANGED <<inputVars, dirOnDisk, outOnDisk, pc, status, shown, progress,
                   records, rowIdx, imageLinkSet, allImageLinks, totalSteps, stepsCompleted, mu, imagePathMap, gets, launched>>

\* A write of chunk c at offset off of an open file: the bytes before a
\* write beyond the end read as zero ("0").
WriteAt(content, off, c) ==
    IF off < Len(content) THEN [content EXCEPT ![off + 1] = c]
    ELSE content \o [k \in 1..(off - Len(content)) |-> "0"] \o <<c>>

\* io.Copy (src/main.go:523-526), one chunk a step: the next chunk of the
\* body is written at the task's offset, or the read or the write fails and
\* the file stays as it is.
TaskCopy(link) ==
    /\ task[link].pc = "copy"
    /\ LET p == task[link]
           off == task[link].off
       IN  \/ /\ files' = [files EXCEPT ![p.filePath] = WriteAt(@, off, Body[off + 1])]
              /\ task' = [task EXCEPT ![link].off = off + 1,
                                      ![link].pc = IF off + 1 = Len(Body) THEN "check"
                                                   ELSE "copy"]
              /\ UNCHANGED wg
           \/ /\ TaskFails(link)
              /\ UNCHANGED files
    /\ UNCHANGED <<inputVars, dirOnDisk, outOnDisk, fsEffects, pc, status, shown,
                   progress, records, rowIdx, imageLinkSet, allImageLinks,
                   totalSteps, stepsCompleted, mu, imagePathMap, gets, launched>>

\* The content-length check (src/main.go:529-537). The response declares
\* the length of its body or none (-1); nothing but this check reads
\* resp.ContentLength, and the model draws it here.
TaskCheck(link) ==
    /\ task[link].pc = "check"
    /\ \E cl \in {-1, Len(Body)} :
          IF cl > 0 /\ Len(files[task[link].filePath]) # cl
          THEN TaskFails(link)
          ELSE TaskAt(link, "lock") /\ UNCHANGED wg
    /\ UNCHANGED <<inputVars, fsVars, pc, status, shown, progress, records, rowIdx,
                   imageLinkSet, allImageLinks, totalSteps, stepsCompleted, mu,
                   imagePathMap, gets, launched>>

\* A variant of TaskUpdate that leaves the counter as it is.
TaskUpdateSkipsCount(link) ==
    /\ task[link].pc = "lock"
    /\ mu = <<>>
    /\ mu' = link
    /\ LET newPath == task[link].relativePath
       IN  imagePathMap' = IF link \in DOMAIN imagePathMap
                           THEN [imagePathMap EXCEPT ![link] = newPath]
                           ELSE imagePathMap @@ (link :> newPath)
    /\ progress' = Fraction(stepsCompleted, totalSteps)
    /\ status' = <<"Status: Downloaded %d of %d images", stepsCompleted, totalSteps>>
    /\ TaskAt(link, "unlock")
    /\ UNCHANGED <<inputVars, fsVars, pc, shown, records, rowIdx, imageLinkSet,
                   allImageLinks, totalSteps, stepsCompleted, wg, gets, launched>>

\* A variant of TaskUpdate that does not wait for the mutex.
TaskUpdateNoLock(link) ==
    /\ task[link].pc = "lock"
    /\ mu' = link
    /\ LET newPath == task[link].relativePath
       IN  imagePathMap' = IF link \in DOMAIN imagePathMap
                           THEN [imagePathMap EXCEPT ![link] = newPath]
                           ELSE imagePathMap @@ (link :> newPath)
    /\ stepsCompleted' = stepsCompleted + 1
    /\ progress' = Fraction(stepsCompleted + 1, totalSteps)
    /\ status' = <<"Status: Downloaded %d of %d images", stepsCompleted + 1,
                   totalSteps>>
    /\ TaskAt(link, "unlock")
    /\ UNCHANGED <<inputVars, fsVars, pc, shown, records, rowIdx, imageLinkSet,
                   allImageLinks, totalSteps, wg, gets, launched>>

\* mu.Lock() and the critical section (src/main.go:358-369): the goroutine
\* waits for the mutex, and holds it from here to TaskUnlock.
TaskUpdate(link) ==
    /\ task[link].pc = "lock"
    /\ mu = <<>>
    /\ mu' = link
    /\ LET newPath == task[link].relativePath
       IN  imagePathMap' = IF link \in DOMAIN imagePathMap
                           THEN [imagePathMap EXCEPT ![link] = newPath]
                           ELSE imagePathMap @@ (link :> newPath)
    /\ stepsCompleted' = stepsCompleted + 1
    /\ progress' = Fraction(stepsCompleted + 1, totalSteps)
    /\ status' = <<"Status: Downloaded %d of %d images", stepsCompleted + 1,
                   totalSteps>>
    /\ TaskAt(link, "unlock")
    /\ UNCHANGED <<inputVars, fsVars, pc, shown, records, rowIdx, imageLinkSet,
                   allImageLinks, totalSteps, wg, gets, launched>>

\* mu.Unlock() and the return (src/main.go:370-371).
TaskUnlock(link) ==
    /\ task[link].pc = "unlock"
    /\ mu' = <<>>
    /\ TaskReturns(link)
    /\ UNCHANGED <<inputVars, fsVars, pc, status, shown, progress, records, rowIdx,
                   imageLinkSet, allImageLinks, totalSteps, stepsCompleted,
                   imagePathMap, gets, launched>>

\* A step of some fetch goroutine.
TaskStep ==
    \E link \in DOMAIN task :
        \/ TaskPrepare(link)
        \/ TaskGet(link)
        \/ TaskCreate(link)
        \/ TaskCopy(link)
        \/ TaskCheck(link)
        \/ TaskUpdate(link)
        \/ TaskUnlock(link)

Next ==
    \/ Press
    \/ ConfirmDir
    \/ ConfirmOut
    \/ Start
    \/ FetchCSV
    \/ Validate
    \/ CollectRow
    \/ BuildSlice
    \/ Launch
    \/ Wait
    \/ RewriteRow
    \/ StartWrite
    \/ WriteOutput
    \/ TaskStep

Spec ==
    Init /\ [][Next]_vars

\* ENABLED <<RewriteRow>>_vars, spelled out: an iteration of the rewrite loop
\* is to be run (it always changes rowIdx or pc).
RewriteRowEnabled ==
    /\ pc = "rewrite"
    /\ rowIdx <= Len(records)
    /\ mu = <<>>

\* The goroutine of processRecords is scheduled (src/main.go:348-401): a
\* step of it that stays possible is taken; for RewriteRow weak fairness is
\* written with its enabling condition spelled out. Nothing is assumed of
\* the fetch goroutines, whose requests have no timeout (http.Client{} at
\* src/main.go:495).
LiveSpec ==
    /\ Init
    /\ [][Next]_vars
    /\ WF_vars(Launch)
    /\ WF_vars(Wait)
    /\ ([]<>(~RewriteRowEnabled) \/ []<><<RewriteRow>>_vars)
    /\ WF_vars(StartWrite)
    /\ WF_vars(WriteOutput)

(***************************************************************************)
(* One call of downloadAndSaveImage (src/main.go:433-538)                  *)
(***************************************************************************)

\* The references one fetch goroutine is run on: those of the rows above,
\* an upper-case extension, a relative reference that begins with http, an
\* absolute URL, one with an empty path, a Cyrillic name, a query string.
FetchReferences ==
    {<<"/", "a">>,
     <<"a">>,
     <<"/", "/", "h", "/", "b">>,
     <<"/", "%">>,
     <<"/", "c", ".", "P", "N", "G">>,
     <<"h", "t", "t", "p", "x">>,
     <<"h", "t", "t", "p", "s", ":", "/", "/", "h", "/", "b">>,
     <<"h", "t", "t", "p", "s", ":", "/", "/", "h">>,
     <<"/", "U+0429", ".", "j", "p", "g">>,
     <<"/", "a", ".", "j", "p", "g", "?", "v", "=", "1">>}

\* The Hostname field for one fetch: with a trailing slash, and a bare host
\* name (the field is checked for emptiness only, src/main.go:102-104).
FetchHostnames ==
    {<<"h", "t", "t", "p", "s", ":", "/", "/", "s", "/">>, <<"s">>}

\* The img tag that cites link.
ImgTag(link) ==
    <<"<", "i", "m", "g", " ", "s", "r", "c", "=", "'">> \o link \o <<"'", ">">>

\* processRecords after the launch loop (src/main.go:349-372) on a dataset
\* of one row that cites one reference: its goroutine has been started. The
\* image directory is absent, or present and empty, or holds a file at the
\* path of the reference already.
InitFetchOne ==
    /\ spreadsheetURL \in {u \in SpreadsheetURLs : GetCSVURLOk(u)}
    /\ hostname \in FetchHostnames
    /\ imagedir \in Imagedirs
    /\ \E link \in FetchReferences :
          /\ sheet = << <<"id", "body_uk", "body_ru">>, <<<<"1">>, ImgTag(link), <<>>>> >>
          /\ imageLinkSet = {link}
          /\ task = (link :> [pc |-> "start", filePath |-> <<>>,
                              relativePath |-> <<>>, off |-> 0])
          /\ gets = (link :> 0)
          /\ launched = (link :> 1)
          /\ LET p == Prepare(link, hostname, imagedir)
             IN  \/ dirOnDisk = FALSE /\ files = EmptyMap
                 \/ dirOnDisk = TRUE /\ files = EmptyMap
                 \/ p.ok /\ dirOnDisk = TRUE /\ files = (p.filePath :> Body)
    /\ records = sheet
    /\ outOnDisk = "none"
    /\ fsEffects = {}
    /\ pc = "download"
    /\ status = <<"Status: Downloading images...">>
    /\ shown = <<"none">>
    /\ progress = [num |-> 0, den |-> 1]
    /\ rowIdx = 3
    /\ allImageLinks = <<>>
    /\ totalSteps = 1
    /\ stepsCompleted = 0
    /\ mu = <<>>
    /\ wg = 1
    /\ imagePathMap = EmptyMap
    /\ later = "none"

\* The steps of the goroutine.
NextFetchOne ==
    TaskStep

SpecFetchOne ==
    InitFetchOne /\ [][NextFetchOne]_vars

(***************************************************************************)
(* A second press of the button (src/main.go:91-196)                       *)
(***************************************************************************)

\* The goroutine startProcessing has started runs (src/main.go:121-147).
BatchRunning ==
    pc \in {"start", "fetchCSV", "validate", "collect", "download", "rewrite", "write"}

\* The button's callback, run while the goroutine of the first press runs
\* (src/main.go:91-117, 174-195): the button is never disabled and no dialog
\* covers it. The fields hold what they held, so none is missing.
PressAgain ==
    /\ BatchRunning
    /\ shown = <<"none">>
    /\ later = "none"
    /\ later' = IF dirOnDisk THEN "confirmDir"
                ELSE IF outOnDisk # "none" THEN "confirmOut"
                ELSE "start"
    /\ UNCHANGED <<spreadsheetURL, hostname, imagedir, sheet, fsVars, pc, status,
                   shown, progress, batchVars>>

\* The answer No to the second press's "Directory Exists" or "File Exists"
\* (src/main.go:163-166, 187-190). The answer Yes, a deletion under the
\* running goroutines, is not followed.
DeclineAgain ==
    /\ later \in {"confirmDir", "confirmOut"}
    /\ status' = <<"Status: Operation Aborted">>
    /\ shown' = <<"error", IF later = "confirmDir" THEN "Directory exists, aborting..."
                           ELSE "File exists, aborting...">>
    /\ later' = "none"
    /\ UNCHANGED <<spreadsheetURL, hostname, imagedir, sheet, fsVars, pc, progress,
                   batchVars>>

\* The second goroutine up to getCSVURL (src/main.go:121-128).
StartAgain ==
    /\ later = "start"
    /\ IF GetCSVURLOk(spreadsheetURL)
       THEN /\ status' = <<"Status: Fetching CSV data...">>
            /\ later' = "fetchCSV"
            /\ UNCHANGED shown
       ELSE /\ status' = <<"Status: Status: Idle">>
            /\ shown' = <<"error", "Invalid Google Spreadsheet URL">>
            /\ later' = "none"
    /\ UNCHANGED <<spreadsheetURL, hostname, imagedir, sheet, fsVars, pc, progress,
                   batchVars>>

\* The second goroutine's fetchCSV fails (src/main.go:130-135). A second
\* processRecords, after a fetch that succeeds, is not followed.
FetchCSVAgainFails ==
    /\ later = "fetchCSV"
    /\ status' = <<"Status: Status: Idle">>
    /\ shown' = <<"error", "Failed to fetch CSV data">>
    /\ later' = "none"
    /\ UNCHANGED <<spreadsheetURL, hostname, imagedir, sheet, fsVars, pc, progress,
                   batchVars>>

NextPresses ==
    \/ Next
    \/ PressAgain
    \/ DeclineAgain
    \/ StartAgain
    \/ FetchCSVAgainFails

\* The program with a second press of the button.
SpecPresses ==
    Init /\ [][NextPresses]_vars

(***************************************************************************)
(* Properties                                                              *)
(***************************************************************************)

\* The rows below the header.
DataRows(sh) ==
    2..Len(sh)

\* A dataset processRecords accepts: a header with both body columns and at
\* least one more row.
ValidSheet(sh) ==
    /\ Len(sh) >= 2
    /\ "body_uk" \in Range(sh[1])
    /\ "body_ru" \in Range(sh[1])

\* The columns of body_uk and body_ru in a valid dataset.
BodyCols(sh) ==
    {HeaderIndex(sh[1], "body_uk"), HeaderIndex(sh[1], "body_ru")}

\* The src literals of the body fields of all data rows.
SrcLiterals(sh) ==
    UNION {Range(extractImageLinks(sh[i][c])) : i \in DataRows(sh), c \in BodyCols(sh)}

\* The places (row, column, position among the field's tags) that cite link.
Citations(sh, link) ==
    {x \in DataRows(sh) \X BodyCols(sh) \X (1..3) :
        LET ls == extractImageLinks(sh[x[1]][x[2]])
        IN  x[3] <= Len(ls) /\ ls[x[3]] = link}

\* The join has been passed: wg.Wait() has returned in this run.
JoinPassed ==
    \/ pc \in {"rewrite", "write"}
    \/ shown = <<"info", "Images downloaded and data processed successfully.">>
    \/ shown = <<"error", "writeCSV">>

\* The fetch task of link has returned.
TaskDone(link) ==
    link \in DOMAIN task /\ task[link].pc = "done"

\* C1: no row is rewritten (the rewrite loop is not entered, no record is
\* changed, no output is written) before every fetch task of the download
\* phase has been launched and has returned, with success or failure.
C1_RewriteAfterJoin ==
    (\/ pc \in {"rewrite", "write"}
     \/ records \notin {<<>>, sheet}
     \/ outOnDisk = "new")
    => /\ wg = 0
       /\ allImageLinks = <<>>
       /\ \A link \in imageLinkSet : TaskDone(link)

\* C1 happens: a row has been rewritten after a run in which one task
\* succeeded and another failed.
C1_Witness ==
    /\ pc = "rewrite"
    /\ rowIdx > 2
    /\ records # sheet
    /\ \E link \in DOMAIN task : link \in DOMAIN imagePathMap
    /\ \E link \in DOMAIN task : link \notin DOMAIN imagePathMap

C3_MapOnlyCompleteFiles ==
    pc = "rewrite" =>
        \A link \in DOMAIN imagePathMap :
            /\ Prepare(link, hostname, imagedir).ok
            /\ task[link].filePath \in DOMAIN files
            /\ files[task[link].filePath] = Body

\* The field a rewrite should leave: the tags of the field keep their
\* order, a tag whose src is in pathMap has the mapped path as its src, any
\* other tag has its original src.
ExpectedLinks(html, pathMap) ==
    LET orig == extractImageLinks(html)
    IN  [k \in 1..Len(orig) |->
            IF orig[k] \in DOMAIN pathMap THEN pathMap[orig[k]] ELSE orig[k]]

\* C4: whichever fetch tasks fail, the run does not abort after the launch
\* and, at the write-output step, every row has the references whose fetch
\* succeeded rewritten to the local path and the others as they were.
C4_FailuresLeaveBatchWhole ==
    /\ (launched # EmptyMap) => pc # "panic"
    /\ pc = "write" =>
          \A i \in DataRows(sheet) : \A c \in BodyCols(sheet) :
              extractImageLinks(records[i][c])
                  = ExpectedLinks(sheet[i][c], imagePathMap)

\* C5: a dataset with fewer than two rows, or whose header lacks body_uk
\* or body_ru, gets no output file and no image fetch, and the run never
\* goes beyond validation nor reports success.
C5_InvalidDatasetAborts ==
    ~ValidSheet(sheet) =>
        /\ outOnDisk # "new"
        /\ gets = EmptyMap
        /\ launched = EmptyMap
        /\ pc \notin {"collect", "download", "rewrite", "write", "panic"}
        /\ shown[1] # "info"

\* C5 happens: a header without body_ru has been reported as an error.
C5_Witness ==
    /\ Len(sheet) >= 2
    /\ "body_ru" \notin Range(sheet[1])
    /\ "body_uk" \in Range(sheet[1])
    /\ records = sheet
    /\ pc = "idle"
    /\ shown = <<"error", "Missing required column">>

\* The run has failed at schema validation or at reference collection.
FailedEarly ==
    \/ shown = <<"error", "No data in CSV">>
    \/ shown = <<"error", "Missing required column">>
    \/ pc = "panic"

\* C6 as stated: when the run fails at validation or collection, nothing
\* on the file system has been created, deleted or overwritten.
C6_NoEffectBeforeFailure ==
    FailedEarly => fsEffects = {}

\* C6 amended: when the run fails at validation or collection, nothing has
\* been created or overwritten; the only effects are the deletions of the
\* image directory and of the output file that the user confirmed.
C6_OnlyConfirmedDeletions ==
    (FailedEarly \/ (~ValidSheet(sheet) /\ records # <<>>)) =>
        /\ fsEffects \subseteq {"RemoveAll image directory", "Remove output file"}
        /\ ~dirOnDisk
        /\ outOnDisk = "none"
        /\ files = EmptyMap

\* C6 happens: validation has failed after both confirmed deletions.
C6_Witness ==
    /\ shown = <<"error", "Missing required column">>
    /\ fsEffects = {"RemoveAll image directory", "Remove output file"}

\* C7: the progress value is a fraction between 0 and 1.
C7_ProgressInUnitInterval ==
    /\ progress.den > 0
    /\ 0 <= progress.num
    /\ progress.num <= progress.den

\* C8: rewriting a field twice with the map of the run gives what
\* rewriting it once gives.
C8_RewriteIdempotent ==
    pc = "write" =>
        \A i \in DataRows(sheet) : \A c \in BodyCols(sheet) :
            LET once == replaceImageLinks(sheet[i][c], imagePathMap)
            IN  replaceImageLinks(once, imagePathMap) = once

\* html from position pos on, with the src value of every match ms[j],
\* j >= k and j in chosen, replaced by its path in pathMap.
RECURSIVE Splice(_, _, _, _, _, _)
Splice(html, pos, ms, k, chosen, pathMap) ==
    IF k > Len(ms) THEN Sub(html, pos, Len(html))
    ELSE LET src == Sub(html, ms[k].cap1, ms[k].cap2)
         IN  Sub(html, pos, ms[k].cap1 - 1)
             \o (IF k \in chosen THEN pathMap[src] ELSE src)
             \o Splice(html, ms[k].cap2 + 1, ms, k + 1, chosen, pathMap)

\* out differs from html in nothing but src values of img tags whose src
\* is a key of pathMap.
OnlySrcChanged(html, out, pathMap) ==
    LET ms == FindAllImg(html, 1)
        keyed == {k \in 1..Len(ms) :
                     Sub(html, ms[k].cap1, ms[k].cap2) \in DOMAIN pathMap}
    IN  \E chosen \in SUBSET keyed : out = Splice(html, 1, ms, 1, chosen, pathMap)

\* C9: a rewritten field differs from the original in nothing but the src
\* values of img tags whose src is a key of the map.
C9_RewriteChangesOnlySrc ==
    pc = "write" =>
        \A i \in DataRows(sheet) : \A c \in BodyCols(sheet) :
            OnlySrcChanged(sheet[i][c],
                           replaceImageLinks(sheet[i][c], imagePathMap),
                           imagePathMap)

\* C10: after the collection pass the reference set is the set of src
\* literals of the body_uk and body_ru fields of all data rows, and the
\* slice made of it holds each of them once.
C10_ReferenceSetExact ==
    (pc \in {"download", "rewrite", "write"}) =>
        /\ imageLinkSet = SrcLiterals(sheet)
        /\ totalSteps = Cardinality(SrcLiterals(sheet))
        /\ Range(allImageLinks) \cup DOMAIN launched = imageLinkSet
        /\ Range(allImageLinks) \cap DOMAIN launched = {}
        /\ Cardinality(Range(allImageLinks)) = Len(allImageLinks)

\* C10 happens: the slice has just been built from two distinct literals,
\* one of them cited three times.
C10_Witness ==
    /\ pc = "download"
    /\ Len(allImageLinks) = 2
    /\ launched = EmptyMap
    /\ \E link \in imageLinkSet : Cardinality(Citations(sheet, link)) >= 3

\* C11: the records have the rows and the fields of the dataset; the header
\* row, every field outside body_uk and body_ru, and every body field
\* without an img tag are as they were fetched.
C11_OnlyBodyFieldsChange ==
    (records # <<>>) =>
        /\ Len(records) = Len(sheet)
        /\ records[1] = sheet[1]
        /\ \A i \in DataRows(sheet) :
              /\ Len(records[i]) = Len(sheet[i])
              /\ \A c \in 1..Len(sheet[i]) :
                    (c \notin BodyCols(sheet) \/ extractImageLinks(sheet[i][c]) = <<>>)
                        => records[i][c] = sheet[i][c]

\* C11 happens: the rewrite loop is over, a row has been changed, and a
\* body field of that row has no img tag.
C11_Witness ==
    /\ pc = "write"
    /\ \E i \in DataRows(sheet) :
          /\ records[i] # sheet[i]
          /\ \E c \in BodyCols(sheet) : extractImageLinks(sheet[i][c]) = <<>>

\* C12: a fetch goroutine that finds a file at the synthesized path returns
\* at once with the relative path, imagedir followed by the file's name, and
\* issues no HTTP request: the step from the start of downloadAndSaveImage
\* takes it straight to the update of the map, and no GET is counted.
C12_ExistingFileShortcut ==
    [][\A link \in DOMAIN task :
          LET p == Prepare(link, hostname, imagedir)
          IN  (/\ task[link].pc = "start"
               /\ p.ok
               /\ p.filePath \in DOMAIN files
               /\ task'[link] # task[link])
              => /\ task'[link].pc = "lock"
                 /\ task'[link].relativePath = imagedir \o Base(p.filePath)
                 /\ gets' = gets
                 /\ files' = files]_vars

\* C12 happens: a goroutine has found the file and returned its path with
\* no GET issued.
C12_Witness ==
    \E link \in DOMAIN task :
        /\ task[link].pc = "lock"
        /\ gets[link] = 0
        /\ task[link].filePath \in DOMAIN files

\* The characters a-z, 0-9.
IsLowerOrDigit(c) ==
    IsLower(c) \/ IsDigit(c)

\* name matches ^[a-z0-9-]+\.[a-z0-9]+$ : one dot, before it one or more
\* of a-z, 0-9 and the dash, after it one or more of a-z, 0-9.
MatchesFilenamePattern(name) ==
    LET dot == LastIndex(name, ".", Len(name))
    IN  /\ dot > 1
        /\ dot < Len(name)
        /\ \A k \in 1..(dot - 1) : IsLowerOrDigit(name[k]) \/ name[k] = "-"
        /\ \A k \in (dot + 1)..Len(name) : IsLowerOrDigit(name[k])

\* C13: the name of the local file synthesized for a reference matches
\* ^[a-z0-9-]+\.[a-z0-9]+$.
C13_FilenamePattern ==
    \A link \in DOMAIN task :
        task[link].filePath # <<>> => MatchesFilenamePattern(Base(task[link].filePath))

\* The relative path of a reference: imagedir followed by the filename
\* synthesized from the resolved URL.
RelativePathOf(link) ==
    LET imageURL == ResolveURL(link, hostname)
    IN  imagedir \o SynthFilename(imageURL, ParseURL(imageURL).path)

\* downloadAndSaveImage has returned success for link.
ReturnedSuccess(link) ==
    link \in DOMAIN task /\ task[link].pc \in {"lock", "unlock"}

\* C14: the path a successful downloadAndSaveImage returns, and the map
\* then holds, is imagedir followed by the synthesized filename, a value
\* of the reference, the hostname and imagedir alone: the same whether the
\* file was found on disk (no GET) or downloaded (one GET).
C14_SamePathEitherWay ==
    /\ \A link \in DOMAIN task :
          ReturnedSuccess(link) => task[link].relativePath = RelativePathOf(link)
    /\ \A link \in DOMAIN imagePathMap : imagePathMap[link] = RelativePathOf(link)

\* C14 happens: the map holds the path of a reference whose file was
\* already present, with no GET issued and the file as it was.
C14_Witness ==
    \E link \in DOMAIN imagePathMap :
        /\ gets[link] = 0
        /\ task[link].pc = "done"
        /\ files[task[link].filePath] = Body
        /\ fsEffects = {}

\* C15: a reference whose GET has been issued and whose fetch has failed
\* is requested again in the same run: once its goroutine has returned
\* without an entry in the map, more than one GET has been issued for it.
C15_FailedGetIsRetried ==
    \A link \in DOMAIN task :
        (/\ task[link].pc = "done"
         /\ gets[link] >= 1
         /\ link \notin DOMAIN imagePathMap)
        => gets[link] >= 2

\* The goroutines inside the critical section: between mu.Lock() and
\* mu.Unlock().
Holders ==
    {link \in DOMAIN task : task[link].pc = "unlock"}

\* C16: at most one goroutine is inside the critical section and it is the
\* holder of the mutex; the mutex is held by nobody else, and is free once
\* the join is passed (a goroutine does not return holding it); in the
\* download phase the map and the counter change only in a step that
\* acquires the free mutex.
C16_MutexGuardsMapAndCounter ==
    /\ [](/\ Cardinality(Holders) <= 1
          /\ \A link \in Holders : mu = link
          /\ (mu # <<>>) => mu \in Holders
          /\ JoinPassed => mu = <<>>)
    /\ [][(/\ pc = "download"
            /\ (imagePathMap' # imagePathMap \/ stepsCompleted' # stepsCompleted))
           => /\ mu = <<>>
              /\ mu' \in DOMAIN task
              /\ task[mu'].pc = "lock"
              /\ task'[mu'].pc = "unlock"]_vars

\* C16 happens: a goroutine holds the mutex after its update while another
\* one is waiting for it.
C16_Witness ==
    /\ \E link \in DOMAIN task : task[link].pc = "unlock" /\ mu = link
    /\ \E link \in DOMAIN task : task[link].pc = "lock"
    /\ stepsCompleted = 1

\* The phases of an invocation, in their order.
PhaseOrder ==
    <<"Idle", "FetchingSource", "ValidatingSchema", "CollectingReferences",
      "DownloadingAssets", "RewritingRows", "WritingOutput", "Completed">>

\* The phase the invocation is in. The confirmation dialogs come before the
\* batch is started; an error dialog, and the end of the process by a
\* run-time panic, are the failure.
Phase ==
    CASE pc = "idle" /\ shown = <<"none">> -> "Idle"
      [] pc = "idle" /\ shown[1] = "info" -> "Completed"
      [] pc = "idle" /\ shown[1] = "error" -> "Failed"
      [] pc \in {"confirmDir", "confirmOut"} -> "Idle"
      [] pc \in {"start", "fetchCSV"} -> "FetchingSource"
      [] pc = "validate" -> "ValidatingSchema"
      [] pc = "collect" -> "CollectingReferences"
      [] pc = "download" -> "DownloadingAssets"
      [] pc = "rewrite" -> "RewritingRows"
      [] pc = "write" -> "WritingOutput"
      [] pc = "panic" -> "Failed"

\* The place of a phase in the order.
PhaseRank(ph) ==
    CHOOSE k \in 1..Len(PhaseOrder) : PhaseOrder[k] = ph

\* C17: a step keeps the phase, or moves to the next phase of the order,
\* or to Failed; Completed and Failed are left by no step.
C17_PhaseOrder ==
    [][\/ Phase' = Phase
       \/ /\ Phase \notin {"Completed", "Failed"}
          /\ \/ Phase' = "Failed"
             \/ /\ Phase' # "Failed"
                /\ PhaseRank(Phase') = PhaseRank(Phase) + 1]_vars

\* C17 happens: the invocation has gone through every phase to Completed
\* and has rewritten a row on its way.
C17_Witness ==
    /\ Phase = "Completed"
    /\ records # sheet
    /\ outOnDisk = "new"

\* Every fetch goroutine launched so far has returned.
AllLaunchedReturned ==
    \A link \in DOMAIN task : task[link].pc = "done"

\* C18: if every launched fetch goroutine returns in the end, the batch
\* that has reached the download phase goes on to Completed or Failed; and
\* the download phase is left only when every launched goroutine has
\* returned, so that one that never returns keeps the batch there.
C18_JoinCompletesWhenTasksReturn ==
    /\ ([]<>AllLaunchedReturned)
          => ((pc = "download") ~> (Phase \in {"Completed", "Failed"}))
    /\ [][(pc = "download" /\ pc' # "download")
             => (wg = 0 /\ allImageLinks = <<>> /\ AllLaunchedReturned)]_vars

\* C18 happens: the batch has ended after two fetch goroutines returned,
\* one with success and one with failure.
C18_Witness ==
    /\ Phase \in {"Completed", "Failed"}
    /\ Cardinality(DOMAIN task) = 2
    /\ AllLaunchedReturned
    /\ Cardinality(DOMAIN imagePathMap) = 1

\* a <= b for two quotients of float64 values with non-negative numerators:
\* a positive numerator over 0 is +Inf.
LeqFraction(a, b) ==
    IF b.den = 0 THEN b.num > 0
    ELSE a.den # 0 /\ a.num * b.den <= b.num * a.den

\* C19: in the download and rewrite phases the counter stays or grows by
\* 1 and the denominator stays; a progress value set there is the counter
\* over that denominator, set as the counter grows; and no step lowers
\* the progress value.
C19_ProgressNeverResets ==
    [][/\ LeqFraction(progress, progress')
       /\ pc \in {"download", "rewrite"} =>
             /\ totalSteps' = totalSteps
             /\ stepsCompleted' \in {stepsCompleted, stepsCompleted + 1}
             /\ (progress' # progress \/ stepsCompleted' # stepsCompleted)
                   => /\ stepsCompleted' = stepsCompleted + 1
                      /\ progress' = [num |-> stepsCompleted', den |-> totalSteps]]_vars

\* C19 happens: every image has been fetched and the rewrite loop has
\* gone on counting from there.
C19_Witness ==
    /\ pc = "rewrite"
    /\ rowIdx > 2
    /\ totalSteps >= 1
    /\ Cardinality(DOMAIN imagePathMap) = totalSteps
    /\ stepsCompleted = totalSteps + 1
    /\ progress = [num |-> stepsCompleted, den |-> totalSteps]

\* The three rules of URL resolution, in order.
ResolvedByRules(reference, host) ==
    IF HasPrefix(reference, <<"/", "/">>)
    THEN <<"h", "t", "t", "p", "s", ":">> \o reference
    ELSE IF ~HasPrefix(reference, HTTP)
         THEN TrimRight(host, "/") \o <<"/">> \o TrimLeft(reference, "/")
    ELSE reference

\* An absolute URL begins with a scheme and a colon.
IsAbsoluteURL(u) ==
    GetScheme(u, 1).kind = "scheme"

\* The URL every goroutine past its first step has resolved follows the
\* three rules.
ResolutionFollowsRules ==
    \A link \in DOMAIN task :
        task[link].pc # "start"
            => ResolveURL(link, hostname) = ResolvedByRules(link, hostname)

\* C20: the URL downloadAndSaveImage resolves follows the three rules in
\* order and is an absolute URL, for every reference and hostname.
C20_ResolvedURLIsAbsolute ==
    /\ ResolutionFollowsRules
    /\ \A link \in DOMAIN task :
          task[link].pc # "start" => IsAbsoluteURL(ResolveURL(link, hostname))

\* The goroutine of link creates its file in this step.
CreatesFile(link) ==
    /\ link \in DOMAIN task
    /\ task[link].pc = "create"
    /\ task'[link].pc = "copy"

\* The goroutine of link finds its file on disk in this step and skips
\* the download.
TakesShortcut(link) ==
    /\ link \in DOMAIN task
    /\ task[link].pc = "start"
    /\ task'[link].pc = "lock"

\* Some other goroutine of the run has the file at path open and io.Copy
\* has not returned.
WrittenByAnother(link, path) ==
    \E other \in DOMAIN task \ {link} :
        task[other].filePath = path /\ task[other].pc = "copy"

\* C21: no goroutine creates a path a goroutine of the same run has
\* created (the image directory is empty when the run starts, so a file
\* that is there was created in this run), and none skips the download
\* for a file another goroutine is still writing.
C21_NoSharedDiskPath ==
    [][\A link \in DOMAIN task :
          /\ CreatesFile(link) => task[link].filePath \notin DOMAIN files
          /\ TakesShortcut(link)
                => ~WrittenByAnother(link, task'[link].filePath)]_vars

\* imgTag, the match m of the img expression in html, with its harvested
\* src value replaced by path.
TagWithSrc(html, m, path) ==
    Sub(html, m.from, m.cap1 - 1) \o path \o Sub(html, m.cap2 + 1, m.to)

\* C22: once the rows are rewritten, for every img tag of every body
\* field the value replaceImageLinks looks up is the value
\* extractImageLinks harvested from the tag, and a tag whose harvested
\* reference is in the map is rewritten to the mapped path.
C22_LookupIsHarvested ==
    pc = "write" =>
        \A i \in DataRows(sheet) : \A c \in BodyCols(sheet) :
            LET html == sheet[i][c]
                ms == FindAllImg(html, 1)
            IN  \A k \in 1..Len(ms) :
                    LET imgTag == Sub(html, ms[k].from, ms[k].to)
                        harvested == Sub(html, ms[k].cap1, ms[k].cap2)
                    IN  /\ FirstSrcValue(imgTag, 1) = harvested
                        /\ harvested \in DOMAIN imagePathMap
                              => ReplaceInTag(imgTag, imagePathMap)
                                   = TagWithSrc(html, ms[k], imagePathMap[harvested])

\* C23: for a dataset with both body columns in its header, the row the
\* collection or the rewrite loop is about to index holds both body
\* fields, and the process never ends in an index out of range.
C23_NoIndexOutOfRange ==
    ValidSheet(sheet) =>
        /\ pc # "panic"
        /\ (pc \in {"collect", "rewrite"} /\ rowIdx <= Len(records))
              => RowInRange(records[1], records[rowIdx])

\* C24: the goroutine of a second press never runs while the goroutine
\* of the first press runs.
C24_OneBatchAtATime ==
    ~(BatchRunning /\ later \in {"start", "fetchCSV"})

\* The goroutine of link has issued its GET and has put link in the map:
\* its fetch has succeeded.
FetchSucceeded(link) ==
    /\ link \in DOMAIN imagePathMap
    /\ gets[link] = 1

\* The map and the rows are what the inputs and the map's keys make them:
\* every path is the synthesized one, every row rewritten so far is the
\* fetched row rewritten with the map.
OutputIsFunctionOfMapKeys ==
    JoinPassed =>
        /\ \A link \in DOMAIN imagePathMap : imagePathMap[link] = RelativePathOf(link)
        /\ \A i \in DataRows(sheet) :
              records[i] = IF pc = "rewrite" /\ i >= rowIdx THEN sheet[i]
                           ELSE RewrittenRow(sheet[1], sheet[i], imagePathMap)

\* C25: after the join the map and the rows are a function of the rows,
\* the configuration and the fetches that succeeded: a reference is a key
\* of the map only if a fetch of its URL has succeeded in the run, whatever
\* the order of the goroutines' steps was.
C25_OutputIndependentOfSchedule ==
    /\ OutputIsFunctionOfMapKeys
    /\ JoinPassed =>
          \A link \in DOMAIN imagePathMap :
              \E other \in DOMAIN task :
                  /\ ResolveURL(other, hostname) = ResolveURL(link, hostname)
                  /\ FetchSucceeded(other)

====
